---- MODULE Spec2Model ----
(***************************************************************************)
(* Repository inactivity analyzer (harekrishnarai/inactivity).             *)
(*                                                                         *)
(* The model follows the three flows of cmd/main.go and                    *)
(* pkg/analyzer/analyzer.go: organization mode (AnalyzeRepositories),      *)
(* single-repository mode (analyzeSingleRepository) and file mode          *)
(* (analyzeRepositoriesFromFile).  Every call of the external gh client    *)
(* is one step whose outcome is chosen nondeterministically.               *)
(*                                                                         *)
(* Time is counted in whole hours before the run's reference time `now`;   *)
(* a negative number of hours is a commit timestamp later than `now`.      *)
(* float64 fractions are modelled as exact rationals <<num, den>> with     *)
(* den > 0; float64 division and comparison are monotone, so the           *)
(* comparisons below agree with the code wherever the exact quotient       *)
(* differs from the threshold or equals it exactly.                        *)
(***************************************************************************)
EXTENDS Integers, Sequences, FiniteSets

VARIABLES
    mode,       \* "org" | "repo" | "file" | "none": the command being run
    cfg,        \* config.Config: maxAge (MaxCommitAgeInDays), thr (InactiveContribThreshold)
    pc,         \* position of the run
    allRepos,   \* number of repositories to analyse (names are 1..allRepos)
    i,          \* index of the repository being analysed
    r,          \* the Repository value being filled in
    contribs,   \* len(validContributors) inside GetContributorsStatus
    active,     \* GetContributorsStatus: active counter
    inactive,   \* GetContributorsStatus: inactive counter
    results,    \* the result slice (results / repos)
    calls,      \* history: per repository, per kind of external call, calls made and failed
    exitCode,   \* process exit code once the run has ended, -1 before
    probe,      \* classifier probe: one input of the flagging rule and its verdict
    out,        \* renderer probe: command line, records, and what the renderer produced
    pager,      \* enumerator probe: the pagination loop of AnalyzeRepositories
    cause       \* history: why the process exited early, "" while it has not

vars == <<mode, cfg, pc, allRepos, i, r, contribs, active, inactive, results,
          calls, exitCode, probe, out, pager, cause>>

runVars == <<mode, cfg, pc, allRepos, i, r, contribs, active, inactive, results,
             calls, exitCode, cause>>

----------------------------------------------------------------------------
(* Bounds of the model *)

NumRepos == 2

MaxContrib == 1

MaxAgeSteps == 1

MaxAgeDays == 1

ThrDen == 1

ProbeMaxContrib == 10

ProbeMaxDays == 3

ProbeThrDen == 10

(* Renderer probe: distinct repository names, and records in one report. *)
MaxName == 2

MaxOut == 2

(* Enumerator probe: pages the organization can fill at most. *)
MaxPages == 3

(* Program constants *)

HoursPerDay == 24

(* perPage := 100 *)
PerPage == 100

(* Spacing, in hours, of the commit ages the data source returns in the model. *)
AgeStep == 36

----------------------------------------------------------------------------
(* Values *)

Modes == {"org", "repo", "file"}

(* os.Args[1]: a command, help, any other word, or "" when there is none. *)
Commands == Modes \cup {"help", "unknown", ""}

(* Hours between the last commit and `now`; AgeStep * (-1) is a commit in the future. *)
CommitAges == {AgeStep * n : n \in -1..MaxAgeSteps}

(* The pipeline is run at the ends of the ranges of -threshold (0.0 and 1.0)   *)
(* and of -days; the values in between are covered by the classifier probe.    *)
Thresholds == {<<0, ThrDen>>, <<ThrDen, ThrDen>>}

Configs == [maxAge : {0, MaxAgeDays}, thr : Thresholds]

(* float64 >= on two fractions with positive denominators *)
FracGE(p, q) == p[1] * q[2] >= q[1] * p[2]

Zero == <<0, 1>>

----------------------------------------------------------------------------
(* The Repository struct and the derived metrics *)

(* Repository{Name: name}: every other field has Go's zero value. *)
NewRepository(name) ==
    [name |-> name, lastCommit |-> 0, days |-> 0, total |-> 0, inactive |-> 0,
     pct |-> Zero, archived |-> FALSE, flagged |-> FALSE]

NoRepo == NewRepository(0)

(* int(now.Sub(lastCommitDate).Hours() / 24): the conversion truncates toward zero. *)
DaysSinceLastCommit(hours) ==
    IF hours >= 0 THEN hours \div HoursPerDay ELSE -((-hours) \div HoursPerDay)

SetLastCommit(rec, hours) ==
    [rec EXCEPT !.lastCommit = hours, !.days = DaysSinceLastCommit(hours)]

(* Variant: the fraction of active contributors is stored. *)
OrgCountsActiveFraction(rec, act, inact) ==
    [rec EXCEPT !.total = act + inact,
                !.inactive = inact,
                !.pct = IF act + inact > 0 THEN <<act, act + inact>> ELSE @]

(* Organization mode: contributor counts and fraction. *)
OrgCounts(rec, act, inact) ==
    [rec EXCEPT !.total = act + inact,
                !.inactive = inact,
                !.pct = IF act + inact > 0 THEN <<inact, act + inact>> ELSE @]

(* Variant: the archived branch is missing. *)
OrgFlagNoArchived(rec, c) ==
    IF rec.days > c.maxAge
    THEN IF rec.total > 0
         THEN IF FracGE(rec.pct, c.thr) THEN [rec EXCEPT !.flagged = TRUE] ELSE rec
         ELSE [rec EXCEPT !.flagged = TRUE]
    ELSE rec

(* Variant: the threshold comparison is strict. *)
OrgFlagStrict(rec, c) ==
    IF rec.archived
    THEN [rec EXCEPT !.flagged = TRUE]
    ELSE IF rec.days > c.maxAge
         THEN IF rec.total > 0
              THEN IF ~FracGE(c.thr, rec.pct) THEN [rec EXCEPT !.flagged = TRUE] ELSE rec
              ELSE [rec EXCEPT !.flagged = TRUE]
         ELSE rec

(* Variant: the age comparison is inverted. *)
OrgFlagYoung(rec, c) ==
    IF rec.archived
    THEN [rec EXCEPT !.flagged = TRUE]
    ELSE IF rec.days < c.maxAge
         THEN IF rec.total > 0
              THEN IF FracGE(rec.pct, c.thr) THEN [rec EXCEPT !.flagged = TRUE] ELSE rec
              ELSE [rec EXCEPT !.flagged = TRUE]
         ELSE rec

(* Organization mode: the flagging rule. *)
OrgFlag(rec, c) ==
    IF rec.archived
    THEN [rec EXCEPT !.flagged = TRUE]
    ELSE IF rec.days > c.maxAge
         THEN IF rec.total > 0
              THEN IF FracGE(rec.pct, c.thr) THEN [rec EXCEPT !.flagged = TRUE] ELSE rec
              ELSE [rec EXCEPT !.flagged = TRUE]
         ELSE rec

(* Single-repository mode: contributor counts and fraction. *)
SingleCounts(rec, act, inact) ==
    [rec EXCEPT !.total = act + inact,
                !.inactive = inact,
                !.pct = IF act + inact > 0 THEN <<inact, act + inact>> ELSE @]

(* Variant: the age comparison is inclusive. *)
SingleFlagInclusiveAge(rec, c) ==
    IF rec.days >= c.maxAge
    THEN IF rec.total > 0
         THEN IF FracGE(rec.pct, c.thr) THEN [rec EXCEPT !.flagged = TRUE] ELSE rec
         ELSE [rec EXCEPT !.flagged = TRUE]
    ELSE rec

(* Variant: the archived short-circuit of organization mode is applied. *)
SingleFlagArchived(rec, c) ==
    IF rec.archived
    THEN [rec EXCEPT !.flagged = TRUE]
    ELSE IF rec.days > c.maxAge
         THEN IF rec.total > 0
              THEN IF FracGE(rec.pct, c.thr) THEN [rec EXCEPT !.flagged = TRUE] ELSE rec
              ELSE [rec EXCEPT !.flagged = TRUE]
         ELSE rec

(* Single-repository mode: the flagging rule (no archived branch). *)
SingleFlag(rec, c) ==
    IF rec.days > c.maxAge
    THEN IF rec.total > 0
         THEN IF FracGE(rec.pct, c.thr) THEN [rec EXCEPT !.flagged = TRUE] ELSE rec
         ELSE [rec EXCEPT !.flagged = TRUE]
    ELSE rec

(* Variant: only the active contributors are counted in the total. *)
FileCountsActiveOnly(rec, act, inact) ==
    [rec EXCEPT !.total = act,
                !.inactive = inact,
                !.pct = IF act + inact > 0 THEN <<inact, act + inact>> ELSE @]

(* File mode: contributor counts and fraction. *)
FileCounts(rec, act, inact) ==
    [rec EXCEPT !.total = act + inact,
                !.inactive = inact,
                !.pct = IF act + inact > 0 THEN <<inact, act + inact>> ELSE @]

(* Variant: this copy of the rule compares the fraction strictly. *)
FileFlagStrict(rec, c) ==
    IF rec.days > c.maxAge
    THEN IF rec.total > 0
         THEN IF ~FracGE(c.thr, rec.pct) THEN [rec EXCEPT !.flagged = TRUE] ELSE rec
         ELSE [rec EXCEPT !.flagged = TRUE]
    ELSE rec

(* Variant: a repository without contributors is never flagged. *)
FileFlagNeedsContributors(rec, c) ==
    IF rec.days > c.maxAge
    THEN IF rec.total > 0
         THEN IF FracGE(rec.pct, c.thr) THEN [rec EXCEPT !.flagged = TRUE] ELSE rec
         ELSE rec
    ELSE rec

(* File mode: the flagging rule (no archived branch). *)
FileFlag(rec, c) ==
    IF rec.days > c.maxAge
    THEN IF rec.total > 0
         THEN IF FracGE(rec.pct, c.thr) THEN [rec EXCEPT !.flagged = TRUE] ELSE rec
         ELSE [rec EXCEPT !.flagged = TRUE]
    ELSE rec

(* The record a mode produces from fetched metrics. *)
Classified(m, rec, act, inact, c) ==
    CASE m = "org"  -> OrgFlag(OrgCounts(rec, act, inact), c)
      [] m = "repo" -> SingleFlag(SingleCounts(rec, act, inact), c)
      [] m = "file" -> FileFlag(FileCounts(rec, act, inact), c)

----------------------------------------------------------------------------
(* History of external calls *)

NoCall == [n |-> 0, failed |-> 0]

NoCalls ==
    [parse |-> NoCall, exists |-> NoCall, archived |-> NoCall, commit |-> NoCall,
     contributors |-> NoCall, member |-> NoCall, listed |-> 0]

Called(log, ok) == [n |-> log.n + 1, failed |-> log.failed + (IF ok THEN 0 ELSE 1)]

(* Outcome of one external call: an error, or a value. *)
Failure == [ok |-> FALSE, v |-> 0]

Success(S) == {[ok |-> TRUE, v |-> x] : x \in S}

Outcomes(S) == {Failure} \cup Success(S)

----------------------------------------------------------------------------
(* The run *)

Idle ==
    /\ mode = "none"
    /\ cfg = [maxAge |-> 0, thr |-> Zero]
    /\ pc = "idle"
    /\ allRepos = 0
    /\ i = 0
    /\ r = NoRepo
    /\ contribs = 0
    /\ active = 0
    /\ inactive = 0
    /\ results = <<>>
    /\ calls = [j \in 1..NumRepos |-> NoCalls]
    /\ exitCode = -1
    /\ cause = ""

NoProbe == [phase |-> "idle"]

NoOut == [phase |-> "idle"]

NoPager == [phase |-> "idle"]

Init ==
    /\ mode \in Commands
    /\ cfg \in Configs
    /\ pc = "main"
    /\ allRepos = 0
    /\ i = 0
    /\ r = NoRepo
    /\ contribs = 0
    /\ active = 0
    /\ inactive = 0
    /\ results = <<>>
    /\ calls = [j \in 1..NumRepos |-> NoCalls]
    /\ exitCode = -1
    /\ cause = ""
    /\ probe = NoProbe
    /\ out = NoOut
    /\ pager = NoPager

(* log.Fatalf / log.Fatal: the process exits with code 1. *)
Fatal(why) ==
    /\ pc' = "aborted"
    /\ exitCode' = 1
    /\ cause' = why
    /\ r' = NoRepo
    /\ UNCHANGED <<mode, cfg, allRepos, i, contribs, active, inactive, results,
                   probe, out, pager>>

(* os.Exit(code), by main or by the flag package, or the return of main. *)
Exit(code, why) ==
    /\ pc' = "exited"
    /\ exitCode' = code
    /\ cause' = why
    /\ UNCHANGED <<mode, cfg, allRepos, i, r, contribs, active, inactive, results,
                   calls, probe, out, pager>>

(* A flag set made with flag.ExitOnError: Parse either returns, or prints the  *)
(* error and calls os.Exit(2), or on -h / -help prints the usage and calls     *)
(* os.Exit(0).                                                                  *)
FlagOutcomes == {"parsed", "error", "help"}

(* main: the command is chosen and its arguments are parsed. *)
Main ==
    /\ pc = "main"
    /\ IF mode = ""
       THEN Exit(1, "no-command")
       ELSE IF mode = "help"
       THEN Exit(0, "")
       ELSE IF mode = "unknown"
       THEN Exit(1, "unknown-command")
       ELSE \E hasArgument \in BOOLEAN, flags \in FlagOutcomes :
              IF mode \in {"repo", "file"} /\ ~hasArgument
              THEN Exit(1, "missing-argument")
              ELSE IF flags = "error"
              THEN Exit(2, "flag-error")
              ELSE IF flags = "help"
              THEN Exit(0, "flag-help")
              ELSE /\ pc' = "start"
                   /\ UNCHANGED <<mode, cfg, allRepos, i, r, contribs, active,
                                  inactive, results, calls, exitCode, probe, out,
                                  pager, cause>>

(* First step of the loop body in a mode, or the renderer after the last repository. *)
LoopPc(m, idx, n) ==
    IF m = "file" THEN "parse" ELSE IF idx > n THEN "render" ELSE "archived"

(* Variant: a failed fetch ends the run. *)
SkipAborts ==
    /\ i' = i
    /\ pc' = "aborted"
    /\ exitCode' = 1
    /\ r' = NoRepo
    /\ contribs' = 0
    /\ active' = 0
    /\ inactive' = 0
    /\ UNCHANGED <<mode, cfg, allRepos, results, probe, out, pager, cause>>

(* `continue`: the repository is skipped. *)
Skip ==
    /\ i' = i + 1
    /\ pc' = LoopPc(mode, i + 1, allRepos)
    /\ r' = NoRepo
    /\ contribs' = 0
    /\ active' = 0
    /\ inactive' = 0
    /\ UNCHANGED <<mode, cfg, allRepos, results, exitCode, probe, out, pager, cause>>

(* Variant: a failed validation is only reported and the run goes on. *)
ValidateGitHubCLIWarns ==
    /\ pc = "start"
    /\ \E ok \in BOOLEAN :
         /\ pc' = "setup"
         /\ cause' = IF ok THEN cause ELSE "gh"
         /\ UNCHANGED <<mode, cfg, allRepos, i, r, contribs, active, inactive,
                        results, exitCode, probe, out, pager>>
    /\ UNCHANGED calls

(* analyzer.ValidateGitHubCLI(): gh installed and authenticated, else fatal. *)
ValidateGitHubCLI ==
    /\ pc = "start"
    /\ \E ok \in BOOLEAN :
         IF ok
         THEN /\ pc' = "setup"
              /\ UNCHANGED <<mode, cfg, allRepos, i, r, contribs, active, inactive,
                             results, exitCode, probe, out, pager, cause>>
         ELSE Fatal("gh")
    /\ UNCHANGED calls


(* analyzeOrganization: the organizations of the user are listed; without -org *)
(* the user picks one by number, or in silent mode the run ends.               *)
OrgSelect ==
    /\ pc = "setup"
    /\ mode = "org"
    /\ \E listed \in BOOLEAN, given \in BOOLEAN, silent \in BOOLEAN, valid \in BOOLEAN :
         IF ~listed
         THEN Fatal("organizations")
         ELSE IF ~given /\ silent
         THEN Fatal("organization-missing")
         ELSE IF ~given /\ ~valid
         THEN Fatal("selection")
         ELSE /\ pc' = "enumerate"
              /\ UNCHANGED <<mode, cfg, allRepos, i, r, contribs, active, inactive,
                             results, exitCode, probe, out, pager, cause>>
    /\ UNCHANGED calls

(* Organization mode: the repository names are listed; a failed listing is fatal. *)
OrgEnumerate ==
    /\ pc = "enumerate"
    /\ mode = "org"
    /\ \E res \in Outcomes(0..NumRepos) :
         IF ~res.ok
         THEN Fatal("list")
         ELSE /\ allRepos' = res.v
              /\ i' = 1
              /\ pc' = LoopPc(mode, 1, res.v)
              /\ UNCHANGED <<mode, cfg, r, contribs, active, inactive, results,
                             exitCode, probe, out, pager, cause>>
    /\ UNCHANGED calls

(* Organization mode, loop body: r := Repository{Name}; isRepositoryArchived. *)
OrgArchived ==
    /\ pc = "archived"
    /\ mode = "org"
    /\ \E res \in Outcomes(BOOLEAN) :
         /\ calls' = [calls EXCEPT ![i].archived = Called(@, res.ok)]
         /\ IF ~res.ok
            THEN Skip
            ELSE /\ r' = [NewRepository(i) EXCEPT !.archived = res.v]
                 /\ pc' = "commit"
                 /\ UNCHANGED <<mode, cfg, allRepos, i, contribs, active, inactive,
                                results, exitCode, probe, out, pager, cause>>

(* Organization mode: getLastCommitDate and DaysSinceLastCommit. *)
OrgCommit ==
    /\ pc = "commit"
    /\ mode = "org"
    /\ \E res \in Outcomes(CommitAges) :
         /\ calls' = [calls EXCEPT ![i].commit = Called(@, res.ok)]
         /\ IF ~res.ok
            THEN Skip
            ELSE /\ r' = SetLastCommit(r, res.v)
                 /\ pc' = "contributors"
                 /\ UNCHANGED <<mode, cfg, allRepos, i, contribs, active, inactive,
                                results, exitCode, probe, out, pager, cause>>

(* strings.Split(strings.TrimSpace(out), "\n") of the login list: n logins     *)
(* give n strings (the k-th login is <<k>>), an empty output gives one empty   *)
(* string, written <<>>.                                                        *)
SplitLogins(n) == IF n = 0 THEN << <<>> >> ELSE [k \in 1..n |-> <<k>>]

IsLogin(c) == c # <<>>

(* Variant: the empty strings are not filtered out. *)
ValidContributorsUnfiltered(n) == SplitLogins(n)

(* validContributors: the non-empty strings. *)
ValidContributors(n) == SelectSeq(SplitLogins(n), IsLogin)

(* GetContributorsStatus, first part: the contributor logins are listed and the  *)
(* empty ones dropped.  An error is returned to the caller; an empty list        *)
(* returns (0, 0, nil) without any membership check.                             *)
ListContributors(res) ==
    /\ res.ok
    /\ calls' = [calls EXCEPT ![i].contributors = Called(@, TRUE), ![i].listed = res.v]
    /\ contribs' = Len(ValidContributors(res.v))
    /\ active' = 0
    /\ inactive' = 0
    /\ pc' = IF Len(ValidContributors(res.v)) = 0 THEN "classify" ELSE "member"
    /\ UNCHANGED <<mode, cfg, allRepos, i, r, results, exitCode, probe, out, pager, cause>>

ListContributorsFailed(res) ==
    /\ ~res.ok
    /\ calls' = [calls EXCEPT ![i].contributors = Called(@, FALSE)]

(* Organization mode: getContributorsStatus; an error skips the repository. *)
OrgContributors ==
    /\ pc = "contributors"
    /\ mode = "org"
    /\ \E res \in Outcomes(0..MaxContrib) :
         \/ ListContributors(res)
         \/ ListContributorsFailed(res) /\ Skip

(* Variant: a failed membership check is tried again. *)
CheckMemberRetry ==
    /\ pc = "member"
    /\ active + inactive < contribs
    /\ \E ok \in BOOLEAN :
         /\ calls' = [calls EXCEPT ![i].member = Called(@, ok)]
         /\ active' = IF ok THEN active + 1 ELSE active
         /\ inactive' = inactive
         /\ pc' = IF ok /\ active + inactive + 1 = contribs THEN "classify" ELSE "member"
         /\ calls[i].member.n <= contribs
    /\ UNCHANGED <<mode, cfg, allRepos, i, r, contribs, results, exitCode, probe, out, pager, cause>>

(* GetContributorsStatus, the loop: one membership check per contributor; a      *)
(* failed check counts the contributor as inactive.  After the last contributor  *)
(* the function returns (active, inactive, nil).                                 *)
CheckMember ==
    /\ pc = "member"
    /\ active + inactive < contribs
    /\ \E ok \in BOOLEAN :
         /\ calls' = [calls EXCEPT ![i].member = Called(@, ok)]
         /\ active' = IF ok THEN active + 1 ELSE active
         /\ inactive' = IF ok THEN inactive ELSE inactive + 1
    /\ pc' = IF active + inactive + 1 = contribs THEN "classify" ELSE "member"
    /\ UNCHANGED <<mode, cfg, allRepos, i, r, contribs, results, exitCode, probe, out, pager, cause>>

(* Variant: the new record is put in front of the results. *)
AppendResultFront(rec) ==
    /\ results' = <<rec>> \o results
    /\ i' = i + 1
    /\ pc' = LoopPc(mode, i + 1, allRepos)
    /\ r' = NoRepo
    /\ contribs' = 0
    /\ active' = 0
    /\ inactive' = 0
    /\ UNCHANGED <<mode, cfg, allRepos, calls, exitCode, probe, out, pager, cause>>

(* The rest of a loop body: counts, fraction, flag, append to the results. *)
AppendResult(rec) ==
    /\ results' = Append(results, rec)
    /\ i' = i + 1
    /\ pc' = LoopPc(mode, i + 1, allRepos)
    /\ r' = NoRepo
    /\ contribs' = 0
    /\ active' = 0
    /\ inactive' = 0
    /\ UNCHANGED <<mode, cfg, allRepos, calls, exitCode, probe, out, pager, cause>>

(* Variant: the record starts with the flag of the record appended before it. *)
OrgClassifyKeepsFlag ==
    /\ pc = "classify"
    /\ mode = "org"
    /\ AppendResult(OrgFlag(OrgCounts(
           [r EXCEPT !.flagged = (results # <<>> /\ results[Len(results)].flagged)],
           active, inactive), cfg))

OrgClassify ==
    /\ pc = "classify"
    /\ mode = "org"
    /\ AppendResult(OrgFlag(OrgCounts(r, active, inactive), cfg))

----------------------------------------------------------------------------
(* Single-repository mode *)

(* The repository name is checked (empty, URL form, org/repo form); a malformed  *)
(* name is fatal.  repo := Repository{Name}.                                     *)
SingleParse ==
    /\ pc = "setup"
    /\ mode = "repo"
    /\ \E wellFormed \in BOOLEAN :
         IF ~wellFormed
         THEN Fatal("malformed")
         ELSE /\ allRepos' = 1
              /\ i' = 1
              /\ r' = NewRepository(1)
              /\ pc' = "exists"
              /\ UNCHANGED <<mode, cfg, contribs, active, inactive, results,
                             exitCode, probe, out, pager, cause>>
    /\ UNCHANGED calls

(* gh api repos/<name> --silent: not found or not accessible is fatal. *)
SingleExists ==
    /\ pc = "exists"
    /\ mode = "repo"
    /\ \E ok \in BOOLEAN :
         /\ calls' = [calls EXCEPT ![i].exists = Called(@, ok)]
         /\ IF ~ok
            THEN Fatal("notfound")
            ELSE /\ pc' = "archived"
                 /\ UNCHANGED <<mode, cfg, allRepos, i, r, contribs, active, inactive,
                                results, exitCode, probe, out, pager, cause>>

(* IsRepositoryArchived: a failure is logged and the run goes on with Archived false. *)
SingleArchived ==
    /\ pc = "archived"
    /\ mode = "repo"
    /\ \E res \in Outcomes(BOOLEAN) :
         /\ calls' = [calls EXCEPT ![i].archived = Called(@, res.ok)]
         /\ r' = IF res.ok THEN [r EXCEPT !.archived = res.v] ELSE r
    /\ pc' = "commit"
    /\ UNCHANGED <<mode, cfg, allRepos, i, contribs, active, inactive, results,
                   exitCode, probe, out, pager, cause>>

(* GetLastCommitDate: a failure is fatal. *)
SingleCommit ==
    /\ pc = "commit"
    /\ mode = "repo"
    /\ \E res \in Outcomes(CommitAges) :
         /\ calls' = [calls EXCEPT ![i].commit = Called(@, res.ok)]
         /\ IF ~res.ok
            THEN Fatal("commit")
            ELSE /\ r' = SetLastCommit(r, res.v)
                 /\ pc' = "contributors"
                 /\ UNCHANGED <<mode, cfg, allRepos, i, contribs, active, inactive,
                                results, exitCode, probe, out, pager, cause>>

(* GetContributorsStatus: an error is fatal. *)
SingleContributors ==
    /\ pc = "contributors"
    /\ mode = "repo"
    /\ \E res \in Outcomes(0..MaxContrib) :
         \/ ListContributors(res)
         \/ ListContributorsFailed(res) /\ Fatal("contributors")

(* Counts, fraction and flag of the one record, handed to the renderer. *)
SingleClassify ==
    /\ pc = "classify"
    /\ mode = "repo"
    /\ AppendResult(SingleFlag(SingleCounts(r, active, inactive), cfg))

----------------------------------------------------------------------------
(* File mode *)

(* os.Open of the list file: a failure is fatal; else the non-empty lines are  *)
(* counted and the file is read again from the start.                          *)
FileOpen ==
    /\ pc = "setup"
    /\ mode = "file"
    /\ \E res \in Outcomes(0..NumRepos), seekOk \in BOOLEAN :
         IF ~res.ok
         THEN Fatal("open")
         ELSE IF ~seekOk
         THEN Fatal("seek")
         ELSE /\ allRepos' = res.v
              /\ i' = 1
              /\ pc' = LoopPc(mode, 1, res.v)
              /\ UNCHANGED <<mode, cfg, r, contribs, active, inactive, results,
                             exitCode, probe, out, pager, cause>>
    /\ UNCHANGED calls

(* Variant: a malformed line ends the run. *)
FileParseFatal ==
    /\ pc = "parse"
    /\ mode = "file"
    /\ \E scanned \in BOOLEAN, wellFormed \in BOOLEAN :
         IF ~scanned
         THEN Fatal("read") /\ UNCHANGED calls
         ELSE IF i > allRepos
         THEN /\ pc' = "render"
              /\ UNCHANGED <<mode, cfg, allRepos, i, r, contribs, active, inactive,
                             results, calls, exitCode, probe, out, pager, cause>>
         ELSE IF ~wellFormed
         THEN /\ Fatal("malformed")
              /\ calls' = [calls EXCEPT ![i].parse = Called(@, FALSE)]
         ELSE /\ r' = NewRepository(i)
              /\ pc' = "exists"
              /\ calls' = [calls EXCEPT ![i].parse = Called(@, TRUE)]
              /\ UNCHANGED <<mode, cfg, allRepos, i, contribs, active, inactive,
                             results, exitCode, probe, out, pager, cause>>

(* scanner.Scan(): a read error (or a line beyond the scanner's buffer) ends   *)
(* the loop and is fatal after it; the end of the file ends the loop and the   *)
(* renderer follows.  One non-empty line: a malformed URL or org/repo form     *)
(* skips the line; else repo := Repository{Name}.                               *)
FileParse ==
    /\ pc = "parse"
    /\ mode = "file"
    /\ \E scanned \in BOOLEAN, wellFormed \in BOOLEAN :
         IF ~scanned
         THEN Fatal("read") /\ UNCHANGED calls
         ELSE IF i > allRepos
         THEN /\ pc' = "render"
              /\ UNCHANGED <<mode, cfg, allRepos, i, r, contribs, active, inactive,
                             results, calls, exitCode, probe, out, pager, cause>>
         ELSE IF ~wellFormed
         THEN /\ Skip
              /\ calls' = [calls EXCEPT ![i].parse = Called(@, FALSE)]
         ELSE /\ r' = NewRepository(i)
              /\ pc' = "exists"
              /\ calls' = [calls EXCEPT ![i].parse = Called(@, TRUE)]
              /\ UNCHANGED <<mode, cfg, allRepos, i, contribs, active, inactive,
                             results, exitCode, probe, out, pager, cause>>

(* Variant: the archive status is read from the answer of the accessibility call. *)
FileExistsReadsArchived ==
    /\ pc = "exists"
    /\ mode = "file"
    /\ \E res \in Outcomes(BOOLEAN) :
         /\ calls' = [calls EXCEPT ![i].exists = Called(@, res.ok)]
         /\ IF ~res.ok
            THEN Skip
            ELSE /\ pc' = "commit"
                 /\ r' = [r EXCEPT !.archived = res.v]
                 /\ UNCHANGED <<mode, cfg, allRepos, i, contribs, active, inactive,
                                results, exitCode, probe, out, pager, cause>>

(* gh api repos/<name> --silent: not found or not accessible skips the line. *)
(* The answer (res.v: whether the repository is archived on GitHub) is thrown  *)
(* away by --silent; only the exit status of the call is used.                 *)
FileExists ==
    /\ pc = "exists"
    /\ mode = "file"
    /\ \E res \in Outcomes(BOOLEAN) :
         /\ calls' = [calls EXCEPT ![i].exists = Called(@, res.ok)]
         /\ IF ~res.ok
            THEN Skip
            ELSE /\ pc' = "commit"
                 /\ UNCHANGED <<mode, cfg, allRepos, i, r, contribs, active, inactive,
                                results, exitCode, probe, out, pager, cause>>

(* GetLastCommitDate: a failure skips the line. *)
FileCommit ==
    /\ pc = "commit"
    /\ mode = "file"
    /\ \E res \in Outcomes(CommitAges) :
         /\ calls' = [calls EXCEPT ![i].commit = Called(@, res.ok)]
         /\ IF ~res.ok
            THEN Skip
            ELSE /\ r' = SetLastCommit(r, res.v)
                 /\ pc' = "contributors"
                 /\ UNCHANGED <<mode, cfg, allRepos, i, contribs, active, inactive,
                                results, exitCode, probe, out, pager, cause>>

(* GetContributorsStatus: an error skips the line. *)
FileContributors ==
    /\ pc = "contributors"
    /\ mode = "file"
    /\ \E res \in Outcomes(0..MaxContrib) :
         \/ ListContributors(res)
         \/ ListContributorsFailed(res) /\ Skip

FileClassify ==
    /\ pc = "classify"
    /\ mode = "file"
    /\ AppendResult(FileFlag(FileCounts(r, active, inactive), cfg))

----------------------------------------------------------------------------
(* The renderer is called once with the records; an error it returns is fatal. *)
Render ==
    /\ pc = "render"
    /\ \E ok \in BOOLEAN :
         /\ pc' = IF ok THEN "done" ELSE "aborted"
         /\ exitCode' = IF ok THEN 0 ELSE 1
         /\ cause' = IF ok THEN cause ELSE "output"
    /\ UNCHANGED <<mode, cfg, allRepos, i, r, contribs, active, inactive, results,
                   calls, probe, out, pager>>

Next ==
    \/ Main
    \/ ValidateGitHubCLI
    \/ OrgSelect
    \/ OrgEnumerate
    \/ OrgArchived
    \/ OrgCommit
    \/ OrgContributors
    \/ CheckMember
    \/ OrgClassify
    \/ SingleParse
    \/ SingleExists
    \/ SingleArchived
    \/ SingleCommit
    \/ SingleContributors
    \/ SingleClassify
    \/ FileOpen
    \/ FileParse
    \/ FileExists
    \/ FileCommit
    \/ FileContributors
    \/ FileClassify
    \/ Render

Spec == Init /\ [][Next]_vars

----------------------------------------------------------------------------
(* The flagging rule on its own: one input (mode, archive status, age in days,  *)
(* active and inactive contributor counts, thresholds) is classified by the     *)
(* code of its mode, and classified again as the repository ages.               *)

ProbeThresholds == {<<n, ProbeThrDen>> : n \in 0..(ProbeThrDen + 1)}

ProbeConfigs == [maxAge : 0..ProbeMaxDays, thr : ProbeThresholds]

(* archived is the archive status of the repository on GitHub. *)
ProbeInputs ==
    {p \in [phase : {"input"}, mode : Modes, archived : BOOLEAN,
            days : (-1)..ProbeMaxDays, active : 0..ProbeMaxContrib,
            inactive : 0..ProbeMaxContrib, cfg : ProbeConfigs, rec : {NoRepo},
            aged : {0}] :
        p.active + p.inactive <= ProbeMaxContrib}

(* Organization and single-repository mode store the fetched archive status in *)
(* the record; file mode never fetches it: its records keep Archived false.    *)
ProbeRecord(p, days) ==
    Classified(p.mode,
               SetLastCommit([NewRepository(0) EXCEPT
                                 !.archived = (p.mode # "file" /\ p.archived)],
                             days * HoursPerDay),
               p.active, p.inactive, p.cfg)

ProbeClassify ==
    /\ probe.phase = "input"
    /\ probe' = [probe EXCEPT !.phase = "classified", !.rec = ProbeRecord(probe, probe.days)]
    /\ UNCHANGED <<runVars, out, pager>>

ProbeAge ==
    /\ probe.phase = "classified"
    /\ probe.days < ProbeMaxDays
    /\ probe' = [probe EXCEPT !.days = @ + 1, !.aged = @ + 1,
                              !.rec = ProbeRecord(probe, probe.days + 1)]
    /\ UNCHANGED <<runVars, out, pager>>

ClassInit == Idle /\ probe \in ProbeInputs /\ out = NoOut /\ pager = NoPager

ClassNext == ProbeClassify \/ ProbeAge

ClassSpec == ClassInit /\ [][ClassNext]_vars

----------------------------------------------------------------------------
(* The command line and the renderers on their own: the format and the output  *)
(* file are worked out from the arguments as main does, and the renderer of    *)
(* the command is called once with a sequence of records.  What is printed and *)
(* what is handed to os.WriteFile are sequences of lines.                      *)

FormatWords == {"console", "json", "csv"}

(* The arguments after the command (and after the repository or the file):     *)
(* format is the value of -format ("" when the flag is absent), arg0 the first *)
(* positional argument ("" when there is none), outputFlag whether -output is  *)
(* given as a flag, outputArg whether "-output <path>" stands among the        *)
(* positional arguments.                                                        *)
Arguments ==
    {a \in [format : {""} \cup FormatWords \cup {"xml"},
            arg0 : {""} \cup FormatWords \cup {"other"},
            outputFlag : BOOLEAN, outputArg : BOOLEAN] :
        a.outputArg => a.arg0 # ""}

(* cfg.OutputFormat after main: the default, the flag, the positional word,    *)
(* and in the file command console replaced by csv.                            *)
ParseFormatKeepsConsole(cmd, a) ==
    LET flagged0 == IF a.format # "" THEN a.format ELSE "console"
    IN  IF a.arg0 \in FormatWords THEN a.arg0 ELSE flagged0

(* Variant: the file command replaces console only when no format was given. *)
ParseFormatRewritesDefault(cmd, a) ==
    LET flagged0 == IF a.format # "" THEN a.format ELSE "console"
        positional == IF a.arg0 \in FormatWords THEN a.arg0 ELSE flagged0
    IN  IF cmd = "file" /\ a.format = "" /\ a.arg0 \notin FormatWords
        THEN "csv" ELSE positional

ParseFormat(cmd, a) ==
    LET flagged0 == IF a.format # "" THEN a.format ELSE "console"
        positional == IF a.arg0 \in FormatWords THEN a.arg0 ELSE flagged0
    IN  IF cmd = "file" /\ positional = "console" THEN "csv" ELSE positional

(* cfg.OutputFile # "" after main. *)
ParseOutputFile(a) == a.outputFlag \/ a.outputArg

Line(kind, rec, n) == [kind |-> kind, rec |-> rec, n |-> n]

Text(kind) == Line(kind, NoRepo, 0)

IsFlagged(rec) == rec.flagged

FlaggedCount(repos) == Cardinality({k \in 1..Len(repos) : repos[k].flagged})

(* json.MarshalIndent(repos): one entry per element of the slice. *)
JsonArray(repos) == [k \in 1..Len(repos) |-> Line("json-entry", repos[k], 0)]

(* Variant: only the flagged records get a data row. *)
CsvBufferFlaggedOnly(repos) ==
    <<Text("csv-header")>>
        \o [k \in 1..Len(SelectSeq(repos, IsFlagged)) |->
              Line("csv-row", SelectSeq(repos, IsFlagged)[k], 0)]

(* csvBuffer: the header, then one row per record. *)
CsvBuffer(repos) ==
    <<Text("csv-header")>> \o [k \in 1..Len(repos) |-> Line("csv-row", repos[k], 0)]

(* The three summary lines printed to the console. *)
Summary(repos) ==
    <<Text("title"), Line("total", NoRepo, Len(repos)),
      Line("flagged", NoRepo, FlaggedCount(repos))>>

(* Variant: every record gets a detail entry. *)
DetailsOfAll(repos) ==
    IF FlaggedCount(repos) > 0
    THEN <<Text("flagged-title")>>
            \o [k \in 1..Len(repos) |-> Line("detail", repos[k], 0)]
    ELSE <<>>

(* The detail section: the flagged records in slice order. *)
Details(repos) ==
    IF FlaggedCount(repos) > 0
    THEN <<Text("flagged-title")>>
            \o [k \in 1..Len(SelectSeq(repos, IsFlagged)) |->
                  Line("detail", SelectSeq(repos, IsFlagged)[k], 0)]
    ELSE <<>>

(* reportBuf: the text report written when an output file is set. *)
TextReport(repos) ==
    <<Text("title"), Text("date"), Line("total", NoRepo, Len(repos)),
      Line("flagged", NoRepo, FlaggedCount(repos))>> \o Details(repos)

NoResult == [stdout |-> <<>>, fileData |-> <<>>, writes |-> 0, err |-> FALSE]

(* Variant: the error of os.WriteFile is dropped. *)
WriteFileUnchecked(data, writeOk) ==
    [stdout |-> <<>>, fileData |-> data, writes |-> 1, err |-> FALSE]

(* os.WriteFile(cfg.OutputFile, data, 0644) and the test of its error. *)
WriteFile(data, writeOk) ==
    [stdout |-> <<>>, fileData |-> data, writes |-> 1, err |-> ~writeOk]

(* if cfg.OutputFile != "" { write, print "Results saved" } else { print data } *)
WriteOrPrint(data, hasFile, writeOk) ==
    IF hasFile
    THEN LET w == WriteFile(data, writeOk)
         IN  IF w.err THEN w ELSE [w EXCEPT !.stdout = <<Text("saved")>>]
    ELSE [NoResult EXCEPT !.stdout = data]

(* Variant: the console branch prints only and writes no report. *)
ConsoleBranchScreenOnly(repos, hasFile, writeOk) ==
    [NoResult EXCEPT !.stdout = Summary(repos) \o Details(repos)]

(* OutputResults, the branch of every format other than json and csv. *)
ConsoleBranch(repos, hasFile, writeOk) ==
    LET screen == Summary(repos) \o Details(repos)
    IN  IF hasFile
        THEN LET w == WriteFile(TextReport(repos), writeOk)
             IN  IF w.err
                 THEN [w EXCEPT !.stdout = screen]
                 ELSE [w EXCEPT !.stdout = screen \o <<Text("saved")>>]
        ELSE [NoResult EXCEPT !.stdout = screen]

OutputResults(repos, format, hasFile, writeOk) ==
    IF format = "json"
    THEN WriteOrPrint(JsonArray(repos), hasFile, writeOk)
    ELSE IF format = "csv"
         THEN LET res == WriteOrPrint(CsvBuffer(repos), hasFile, writeOk)
              IN  IF res.err THEN res ELSE [res EXCEPT !.stdout = @ \o Summary(repos)]
         ELSE ConsoleBranch(repos, hasFile, writeOk)

OutputSingleRepositoryResult(repo, format, hasFile, writeOk) ==
    IF format = "json"
    THEN WriteOrPrint(<<Line("json-object", repo, 0)>>, hasFile, writeOk)
    ELSE IF format = "csv"
         THEN WriteOrPrint(CsvBuffer(<<repo>>), hasFile, writeOk)
         ELSE LET screen == <<Text("title"), Line("single", repo, 0)>>
              IN  IF hasFile
                  THEN LET w == WriteFile(<<Text("title"), Text("date"),
                                            Line("single", repo, 0)>>, writeOk)
                       IN  IF w.err
                           THEN [w EXCEPT !.stdout = screen]
                           ELSE [w EXCEPT !.stdout = screen \o <<Text("saved")>>]
                  ELSE [NoResult EXCEPT !.stdout = screen]

(* The records handed to a renderer: names may repeat (a list file may name a  *)
(* repository twice), any record may be flagged or archived.                    *)
OutRecords ==
    {[NewRepository(n) EXCEPT !.flagged = f, !.archived = a] :
        n \in 1..MaxName, f \in BOOLEAN, a \in BOOLEAN}

RECURSIVE SeqsUpTo(_, _)
SeqsUpTo(S, n) ==
    IF n = 0 THEN {<<>>}
    ELSE LET shorter == SeqsUpTo(S, n - 1)
         IN  shorter \cup {Append(q, x) : q \in {t \in shorter : Len(t) = n - 1}, x \in S}

(* The single-repository renderer takes exactly one record. *)
OutInputs ==
    {o \in [phase : {"args"}, cmd : Modes, args : Arguments,
            repos : SeqsUpTo(OutRecords, MaxOut), format : {""},
            outputFile : {FALSE}, writeOk : {TRUE}, res : {NoResult}] :
        o.cmd = "repo" => Len(o.repos) = 1}

(* main: the flags and positional arguments of the command are parsed. *)
MainParse ==
    /\ out.phase = "args"
    /\ out' = [out EXCEPT !.phase = "parsed",
                          !.format = ParseFormat(out.cmd, out.args),
                          !.outputFile = ParseOutputFile(out.args)]
    /\ UNCHANGED <<runVars, probe, pager>>

(* analyzeOrganization / analyzeRepositoriesFromFile: OutputResults(results, cfg) *)
RenderAll ==
    /\ out.phase = "parsed"
    /\ out.cmd \in {"org", "file"}
    /\ \E writeOk \in BOOLEAN :
         out' = [out EXCEPT !.phase = "rendered", !.writeOk = writeOk,
                            !.res = OutputResults(out.repos, out.format,
                                                  out.outputFile, writeOk)]
    /\ UNCHANGED <<runVars, probe, pager>>

(* analyzeSingleRepository: OutputSingleRepositoryResult(repo, cfg) *)
RenderSingle ==
    /\ out.phase = "parsed"
    /\ out.cmd = "repo"
    /\ \E writeOk \in BOOLEAN :
         out' = [out EXCEPT !.phase = "rendered", !.writeOk = writeOk,
                            !.res = OutputSingleRepositoryResult(out.repos[1], out.format,
                                                                 out.outputFile, writeOk)]
    /\ UNCHANGED <<runVars, probe, pager>>

OutInit == Idle /\ probe = NoProbe /\ out \in OutInputs /\ pager = NoPager

OutNext == MainParse \/ RenderAll \/ RenderSingle

OutSpec == OutInit /\ [][OutNext]_vars

----------------------------------------------------------------------------
(* The pagination loop of AnalyzeRepositories on its own.  A request for page  *)
(* p fails, or returns the names of that page, one per line; the name of the   *)
(* k-th repository of page p is <<p, k>>.  The organization has fewer than     *)
(* MaxPages * PerPage repositories, so page MaxPages is never full.            *)

PageSizes(p) == IF p < MaxPages THEN 0..PerPage ELSE 0..(PerPage - 1)

(* strings.Split(strings.TrimSpace(out), "\n"): an empty output gives one     *)
(* empty string, written <<>> here.                                            *)
SplitLines(p, size) ==
    IF size = 0 THEN << <<>> >> ELSE [k \in 1..size |-> <<p, k>>]

IsName(line) == line # <<>>

NewPager ==
    [phase |-> "fetch", page |-> 1, allRepos |-> <<>>, requests |-> <<>>,
     sizes |-> <<>>]

(* Variant: the loop is left on a short page before its names are appended. *)
FetchPageDropsShortPage ==
    /\ pager.phase = "fetch"
    /\ \E res \in Outcomes(PageSizes(pager.page)) :
         LET requested == [pager EXCEPT !.requests = Append(@, pager.page)]
             repoNames == SplitLines(pager.page, res.v)
         IN  IF ~res.ok
             THEN pager' = [requested EXCEPT !.phase = "failed", !.allRepos = <<>>]
             ELSE LET got == [requested EXCEPT !.sizes = Append(@, res.v)]
                  IN  IF Len(repoNames) < PerPage
                      THEN pager' = [got EXCEPT !.phase = "done"]
                      ELSE pager' = [got EXCEPT
                                        !.allRepos = @ \o SelectSeq(repoNames, IsName),
                                        !.page = @ + 1]
    /\ UNCHANGED <<runVars, probe, out>>

(* Variant: a failed request ends the listing with the names collected so far. *)
FetchPageKeepsOnError ==
    /\ pager.phase = "fetch"
    /\ \E res \in Outcomes(PageSizes(pager.page)) :
         LET requested == [pager EXCEPT !.requests = Append(@, pager.page)]
             repoNames == SplitLines(pager.page, res.v)
         IN  IF ~res.ok
             THEN pager' = [requested EXCEPT !.phase = "done"]
             ELSE LET got == [requested EXCEPT !.sizes = Append(@, res.v)]
                      added == [got EXCEPT
                                   !.allRepos = @ \o SelectSeq(repoNames, IsName)]
                  IN  IF Len(repoNames) = 0
                         \/ (Len(repoNames) = 1 /\ repoNames[1] = <<>>)
                      THEN pager' = [got EXCEPT !.phase = "done"]
                      ELSE IF Len(repoNames) < PerPage
                      THEN pager' = [added EXCEPT !.phase = "done"]
                      ELSE pager' = [added EXCEPT !.page = @ + 1]
    /\ UNCHANGED <<runVars, probe, out>>

(* One turn of the loop: the request for the current page, the test for an    *)
(* empty page, the append of its names, the test for a short page, page++.    *)
FetchPage ==
    /\ pager.phase = "fetch"
    /\ \E res \in Outcomes(PageSizes(pager.page)) :
         LET requested == [pager EXCEPT !.requests = Append(@, pager.page)]
             repoNames == SplitLines(pager.page, res.v)
         IN  IF ~res.ok
             THEN pager' = [requested EXCEPT !.phase = "failed", !.allRepos = <<>>]
             ELSE LET got == [requested EXCEPT !.sizes = Append(@, res.v)]
                      added == [got EXCEPT
                                   !.allRepos = @ \o SelectSeq(repoNames, IsName)]
                  IN  IF Len(repoNames) = 0
                         \/ (Len(repoNames) = 1 /\ repoNames[1] = <<>>)
                      THEN pager' = [got EXCEPT !.phase = "done"]
                      ELSE IF Len(repoNames) < PerPage
                      THEN pager' = [added EXCEPT !.phase = "done"]
                      ELSE pager' = [added EXCEPT !.page = @ + 1]
    /\ UNCHANGED <<runVars, probe, out>>

(* analyzeOrganization: the error of AnalyzeRepositories goes to log.Fatalf. *)
ListFailed ==
    /\ pager.phase = "failed"
    /\ pc = "idle"
    /\ Fatal("list")
    /\ UNCHANGED calls

PageInit == Idle /\ probe = NoProbe /\ out = NoOut /\ pager = NewPager

PageNext == FetchPage \/ ListFailed

(* The loop has no other process to wait for: a step that can be taken is taken. *)
PageSpec == PageInit /\ [][PageNext]_vars /\ WF_vars(PageNext)

----------------------------------------------------------------------------
(* Properties *)

Records == {results[n] : n \in 1..Len(results)}

HasRecord(j) == \E rec \in Records : rec.name = j

Classified1 == probe.phase = "classified"

(* C1: in organization mode every record of the result whose archived field is *)
(* true is flagged, whatever its age, contributor counts and the thresholds.   *)
C1_ArchivedAlwaysFlagged ==
    mode = "org" => \A rec \in Records : rec.archived => rec.flagged

C1_Witness ==
    /\ mode = "org"
    /\ \E rec \in Records :
         /\ rec.archived
         /\ rec.days <= cfg.maxAge
         /\ rec.total > 0
         /\ rec.inactive = 0
         /\ cfg.thr[1] > 0
         /\ rec.flagged

(* C2: in every mode a non-archived repository whose age in days is at most    *)
(* maxCommitAgeDays (the equal case included) is not flagged, whatever the     *)
(* contributor counts are.                                                      *)
C2_NotStaleNotFlagged ==
    (Classified1 /\ ~probe.rec.archived /\ probe.rec.days <= probe.cfg.maxAge)
        => ~probe.rec.flagged

C2_Witness ==
    /\ Classified1
    /\ ~probe.rec.archived
    /\ probe.rec.days = probe.cfg.maxAge
    /\ probe.rec.total > 0
    /\ probe.rec.inactive = probe.rec.total
    /\ FracGE(probe.rec.pct, probe.cfg.thr)
    /\ ~probe.rec.flagged

(* C3: a non-archived repository older than maxCommitAgeDays with at least one *)
(* contributor is flagged exactly when inactive / total >= inactiveThreshold;  *)
(* equality flags.                                                              *)
C3_ThresholdInclusive ==
    (Classified1 /\ ~probe.rec.archived /\ probe.rec.days > probe.cfg.maxAge
       /\ probe.rec.total > 0)
        => (probe.rec.flagged <=>
              probe.rec.inactive * probe.cfg.thr[2] >= probe.cfg.thr[1] * probe.rec.total)

C3_Witness ==
    /\ Classified1
    /\ ~probe.rec.archived
    /\ probe.rec.days > probe.cfg.maxAge
    /\ probe.rec.total = 10
    /\ probe.rec.inactive = 5
    /\ probe.cfg.thr = <<5, 10>>
    /\ probe.rec.flagged

(* C4: in every mode a repository older than maxCommitAgeDays with no          *)
(* contributor is flagged, whatever the threshold.                              *)
C4_NoContributorsFlagged ==
    (Classified1 /\ probe.rec.days > probe.cfg.maxAge /\ probe.rec.total = 0)
        => probe.rec.flagged

C4_Witness ==
    /\ Classified1
    /\ ~probe.rec.archived
    /\ probe.rec.days > probe.cfg.maxAge
    /\ probe.rec.total = 0
    /\ probe.cfg.thr[1] > 0
    /\ probe.rec.flagged

(* C5: in organization and file mode a repository whose commit-date or        *)
(* contributor retrieval failed is in no record, the failure does not end the  *)
(* run, and every repository of the sequence whose retrievals succeeded has a  *)
(* record once the loop has passed it.                                          *)
FetchFailed(j) == calls[j].commit.failed > 0 \/ calls[j].contributors.failed > 0

Fetched(j) ==
    /\ calls[j].commit.n = 1
    /\ calls[j].commit.failed = 0
    /\ calls[j].contributors.n = 1
    /\ calls[j].contributors.failed = 0

C5_FetchFailureSkips ==
    mode \in {"org", "file"} =>
        /\ \A j \in 1..NumRepos :
             /\ FetchFailed(j) => (~HasRecord(j) /\ i > j)
             /\ (j < i /\ Fetched(j)) => HasRecord(j)
        /\ pc = "aborted" => (i = 0 \/ i > allRepos \/ cause = "read")
        /\ pc \in {"render", "done"} =>
             /\ i = allRepos + 1
             /\ mode = "org" => \A j \in 1..allRepos : calls[j].archived.n = 1

C5_Witness ==
    /\ mode = "org"
    /\ pc = "done"
    /\ allRepos = 2
    /\ calls[1].contributors.failed = 1
    /\ ~HasRecord(1)
    /\ HasRecord(2)

(* C6 as stated: no record comes from a repository one of whose external calls *)
(* failed, and no external call is made twice for one repository.               *)
AnyCallFailed(j) ==
    \/ calls[j].exists.failed > 0
    \/ calls[j].archived.failed > 0
    \/ calls[j].commit.failed > 0
    \/ calls[j].contributors.failed > 0
    \/ calls[j].member.failed > 0

NoCallRepeated ==
    \A j \in 1..NumRepos :
        /\ calls[j].exists.n <= 1
        /\ calls[j].archived.n <= 1
        /\ calls[j].commit.n <= 1
        /\ calls[j].contributors.n <= 1
        /\ calls[j].member.n <= calls[j].listed

C6_EveryFailureSkipsOrAborts ==
    /\ \A rec \in Records : ~AnyCallFailed(rec.name)
    /\ NoCallRepeated

(* C6 amended: a failed commit lookup, contributor listing or accessibility    *)
(* check, and in organization mode a failed archive check, skips the           *)
(* repository or ends the run, and no record is produced for it; a failed      *)
(* membership check counts that contributor as inactive and, in                *)
(* single-repository mode, a failed archive check leaves archived false, the   *)
(* record being produced all the same; no call is made twice for a repository  *)
(* and at most one membership check is made per listed contributor.            *)
SkippingFailure(j) ==
    \/ calls[j].exists.failed > 0
    \/ calls[j].commit.failed > 0
    \/ calls[j].contributors.failed > 0
    \/ mode = "org" /\ calls[j].archived.failed > 0

C6_FailureHandling ==
    /\ \A j \in 1..NumRepos :
         SkippingFailure(j) => (~HasRecord(j) /\ (i > j \/ pc = "aborted"))
    /\ \A rec \in Records :
         /\ rec.inactive = calls[rec.name].member.failed
         /\ calls[rec.name].archived.failed > 0 => (mode = "repo" /\ ~rec.archived)
    /\ NoCallRepeated

C6_Witness ==
    /\ pc = "done"
    /\ \E rec \in Records :
         /\ calls[rec.name].member.failed > 0
         /\ calls[rec.name].archived.failed > 0
         /\ rec.inactive = rec.total

(* C7 as stated: every record has daysSinceLastCommit >= 0, also when the last *)
(* commit is later than now.                                                    *)
C7_DaysNonNegative == \A rec \in Records : rec.days >= 0

(* C8: every record has fraction 0 when it has no contributors, else           *)
(* inactive / total, and the fraction lies in [0, 1].                           *)
C8_FractionFromCounts ==
    \A rec \in Records :
        /\ rec.total = 0 => rec.pct = Zero
        /\ rec.total > 0 => (rec.pct[2] > 0 /\ rec.pct[1] * rec.total = rec.inactive * rec.pct[2])
        /\ 0 <= rec.pct[1]
        /\ rec.pct[1] <= rec.pct[2]

C8_Witness ==
    /\ \E rec \in Records : rec.total = 0 /\ rec.pct = Zero
    /\ \E rec \in Records : rec.total > 0 /\ rec.inactive = 0 /\ rec.pct[1] = 0
    /\ Len(results) = 2

(* C9: every record has 0 <= inactiveContributors <= totalContributors. *)
C9_InactiveWithinTotal ==
    \A rec \in Records : 0 <= rec.inactive /\ rec.inactive <= rec.total

C9_Witness ==
    /\ mode = "file"
    /\ \E rec \in Records :
         /\ rec.total > 0
         /\ rec.inactive = rec.total
         /\ calls[rec.name].member.n = rec.total

(* C10: classifying the same input again with a larger daysSinceLastCommit     *)
(* never turns a flagged verdict into an unflagged one.                         *)
C10_MonotoneInAge ==
    [][(probe.phase = "classified" /\ probe'.phase = "classified"
          /\ probe'.rec.days > probe.rec.days /\ probe.rec.flagged)
        => probe'.rec.flagged]_vars

C10_Witness ==
    /\ Classified1
    /\ probe.aged > 0
    /\ ~probe.rec.archived
    /\ probe.rec.total > 0
    /\ probe.rec.days - probe.aged > probe.cfg.maxAge
    /\ probe.rec.flagged

(* C11: in single-repository mode and in file mode the archive status of the   *)
(* repository does not enter the verdict: an archived repository whose age is  *)
(* at most maxCommitAgeDays is not flagged, and the record is flagged exactly  *)
(* when it is older than maxCommitAgeDays and either has no contributor or its *)
(* inactive fraction reaches the threshold.                                     *)
C11_NoArchivedShortCircuit ==
    (Classified1 /\ probe.mode \in {"repo", "file"})
        => /\ (probe.archived /\ probe.rec.days <= probe.cfg.maxAge)
                 => ~probe.rec.flagged
           /\ probe.rec.flagged <=>
                 /\ probe.rec.days > probe.cfg.maxAge
                 /\ \/ probe.rec.total = 0
                    \/ probe.rec.inactive * probe.cfg.thr[2]
                          >= probe.cfg.thr[1] * probe.rec.total

C11_Witness ==
    /\ Classified1
    /\ probe.mode = "repo"
    /\ probe.archived
    /\ probe.rec.archived
    /\ probe.rec.days = probe.cfg.maxAge
    /\ probe.rec.total > 0
    /\ probe.rec.inactive = probe.rec.total
    /\ ~probe.rec.flagged

Rendered == out.phase = "rendered"

Saved == \E k \in 1..Len(out.res.stdout) : out.res.stdout[k].kind = "saved"

(* C12: when the write of the report file fails, OutputResults and             *)
(* OutputSingleRepositoryResult return an error, whatever the format is, and   *)
(* the "Results saved" line is not printed.                                     *)
C12_WriteFailureSurfaced ==
    (Rendered /\ out.res.writes > 0 /\ ~out.writeOk)
        => (out.res.err /\ ~Saved)

C12_Witness ==
    /\ Rendered
    /\ out.cmd = "org"
    /\ out.format = "console"
    /\ out.outputFile
    /\ out.res.writes = 1
    /\ ~out.writeOk
    /\ out.res.err
    /\ Len(out.res.stdout) > 0
    /\ ~Saved

(* The report of a run: what was handed to os.WriteFile when an output file is *)
(* set, what was printed otherwise.                                             *)
Report == IF out.outputFile THEN out.res.fileData ELSE out.res.stdout

IsEntry(line) == line.kind \in {"json-entry", "csv-row"}

IsDetail(line) == line.kind = "detail"

RecordsOf(lines) == [k \in 1..Len(lines) |-> lines[k].rec]

(* C13: one call of a renderer calls os.WriteFile exactly once when an output  *)
(* file is set, whatever the format is, and never when none is set.            *)
C13_AtMostOneWrite ==
    Rendered => out.res.writes = (IF out.outputFile THEN 1 ELSE 0)

C13_Witness ==
    /\ Rendered
    /\ out.cmd = "org"
    /\ out.format = "xml"
    /\ out.outputFile
    /\ out.writeOk
    /\ out.res.writes = 1
    /\ Len(out.res.fileData) > 0

(* C14: the json and csv reports of OutputResults hold one entry per input     *)
(* record, flagged or not, in input order; the csv body is the header row      *)
(* followed by exactly len(records) data rows.                                  *)
C14_OneEntryPerRecord ==
    (Rendered /\ out.cmd \in {"org", "file"} /\ out.format \in {"json", "csv"})
        => /\ RecordsOf(SelectSeq(Report, IsEntry)) = out.repos
           /\ out.format = "csv"
                => /\ Len(Report) >= Len(out.repos) + 1
                   /\ Report[1].kind = "csv-header"
                   /\ \A k \in 1..Len(out.repos) :
                         Report[k + 1] = Line("csv-row", out.repos[k], 0)
                   /\ \A k \in 1..Len(Report) :
                         Report[k].kind = "csv-row" => k \in 2..(Len(out.repos) + 1)
           /\ out.format = "json"
                => \A k \in 1..Len(out.repos) :
                      Report[k] = Line("json-entry", out.repos[k], 0)

C14_Witness ==
    /\ Rendered
    /\ out.cmd = "file"
    /\ out.format = "csv"
    /\ Len(out.repos) = 2
    /\ ~out.repos[1].flagged
    /\ out.repos[2].flagged
    /\ out.repos[1].name = out.repos[2].name
    /\ Len(SelectSeq(Report, IsEntry)) = 2

(* C15: the console report of OutputResults states the number of input records *)
(* as total and the number of flagged records as flagged count, and its detail *)
(* section lists exactly the flagged records, each once, in input order; the   *)
(* text report written to the output file lists the same records.              *)
C15_ConsoleListsFlagged ==
    (Rendered /\ out.cmd \in {"org", "file"} /\ out.format \notin {"json", "csv"})
        => /\ out.res.stdout[2] = Line("total", NoRepo, Len(out.repos))
           /\ out.res.stdout[3] =
                 Line("flagged", NoRepo,
                      Cardinality({k \in 1..Len(out.repos) : out.repos[k].flagged}))
           /\ RecordsOf(SelectSeq(out.res.stdout, IsDetail))
                 = SelectSeq(out.repos, IsFlagged)
           /\ out.outputFile
                => RecordsOf(SelectSeq(out.res.fileData, IsDetail))
                     = RecordsOf(SelectSeq(out.res.stdout, IsDetail))

C15_Witness ==
    /\ Rendered
    /\ out.cmd = "org"
    /\ out.format = "console"
    /\ out.outputFile
    /\ out.writeOk
    /\ Len(out.repos) = 2
    /\ out.repos[1].flagged
    /\ ~out.repos[2].flagged
    /\ Len(SelectSeq(out.res.stdout, IsDetail)) = 1
    /\ Len(SelectSeq(out.res.fileData, IsDetail)) = 1

SetupErrors == {"gh", "organization-missing", "open", "malformed"}

NothingFetched == calls = [j \in 1..NumRepos |-> NoCalls]

BadLine(j) == calls[j].parse.failed > 0 \/ calls[j].exists.failed > 0

GoodLine(j) ==
    /\ calls[j].parse.n = 1
    /\ calls[j].parse.failed = 0
    /\ calls[j].exists.n = 1
    /\ calls[j].exists.failed = 0
    /\ Fetched(j)

(* C17: in file mode the step that finds a line malformed, or its repository   *)
(* not found or not accessible, adds no record, does not end the run and moves *)
(* on to the next line; when the renderer is reached, the records are exactly  *)
(* those of the well-formed, accessible lines whose fetches succeeded, the     *)
(* lines after a bad one included.                                              *)
C17_BadLineSkipped ==
    [][mode = "file" =>
         /\ (\E j \in 1..NumRepos : BadLine(j)' /\ ~BadLine(j))
               => /\ pc' = "parse"
                  /\ i' = i + 1
                  /\ results' = results
                  /\ exitCode' = exitCode
         /\ pc' \in {"render", "done"}
               => \A j \in 1..allRepos : HasRecord(j)' <=> GoodLine(j)']_vars

C17_Witness ==
    /\ mode = "file"
    /\ pc = "done"
    /\ exitCode = 0
    /\ allRepos = 2
    /\ calls[1].parse.failed = 1
    /\ ~HasRecord(1)
    /\ GoodLine(2)
    /\ HasRecord(2)

Ended == pc \in {"exited", "aborted", "done"}

(* C18 as stated: a run that ends on a usage error or a fatal failure exits    *)
(* with code 1, every other run (help, a completed analysis, an analysis in    *)
(* which every repository was skipped) exits with code 0.                       *)
C18_ExitOneOrZero ==
    Ended => exitCode = (IF cause \in {"", "flag-help"} THEN 0 ELSE 1)

(* C20: the enumerator requests pages 1, 2, 3, ... in order; every page before *)
(* the last one requested was full, and after the first page that is empty or  *)
(* holds fewer than 100 names no page is requested; at the end the list is the *)
(* concatenation, in order, of the names of the pages fetched; and the loop    *)
(* ends, the organization having finitely many repositories.                   *)
PagesInOrder ==
    /\ \A k \in 1..Len(pager.requests) : pager.requests[k] = k
    /\ \A k \in 1..Len(pager.sizes) :
         pager.sizes[k] < PerPage
            => (k = Len(pager.requests) /\ pager.phase = "done")
    /\ pager.phase = "fetch" => pager.page = Len(pager.requests) + 1
    /\ pager.phase # "failed" =>
         /\ Len(pager.sizes) = Len(pager.requests)
         /\ Len(pager.allRepos)
              = (IF pager.sizes = <<>> THEN 0
                 ELSE (Len(pager.sizes) - 1) * PerPage + pager.sizes[Len(pager.sizes)])
         /\ \A n \in 1..Len(pager.allRepos) :
              pager.allRepos[n] = <<((n - 1) \div PerPage) + 1, ((n - 1) % PerPage) + 1>>

C20_PaginationStops ==
    /\ []PagesInOrder
    /\ <>(pager.phase \in {"done", "failed"})

C20_Witness ==
    /\ pager.phase = "done"
    /\ pager.requests = <<1, 2>>
    /\ pager.sizes = <<PerPage, 7>>
    /\ Len(pager.allRepos) = PerPage + 7
    /\ pager.allRepos[PerPage + 7] = <<2, 7>>

(* C21: in organization mode the records stand in the order in which their     *)
(* names were enumerated (name j is the j-th enumerated one): the result is an *)
(* order-preserving subsequence of the enumeration, also when repositories in  *)
(* between were skipped.                                                        *)
C21_EnumerationOrderKept ==
    mode = "org" =>
        /\ \A a \in 1..Len(results) : results[a].name \in 1..allRepos
        /\ \A a, b \in 1..Len(results) :
             a < b => results[a].name < results[b].name

C21_Witness ==
    /\ mode = "org"
    /\ pc = "done"
    /\ Len(results) = 2
    /\ results[1].name = 1
    /\ results[2].name = 2

(* C22: for a repository that is not archived, the classification code of      *)
(* organization mode, of single-repository mode and of file mode give the same *)
(* flagged verdict on the same age, contributor counts and thresholds.         *)
C22_SameVerdictUnarchived ==
    (Classified1 /\ ~probe.archived)
        => \A m \in Modes :
              ProbeRecord([probe EXCEPT !.mode = m], probe.days).flagged
                = probe.rec.flagged

C22_Witness ==
    /\ Classified1
    /\ ~probe.archived
    /\ probe.mode = "file"
    /\ probe.rec.days > probe.cfg.maxAge
    /\ probe.rec.total > 0
    /\ probe.rec.inactive * probe.cfg.thr[2] = probe.cfg.thr[1] * probe.rec.total
    /\ probe.rec.flagged
    /\ ProbeRecord([probe EXCEPT !.mode = "org"], probe.days).flagged
    /\ ProbeRecord([probe EXCEPT !.mode = "repo"], probe.days).flagged

OrgSkipped(j) ==
    \/ calls[j].archived.failed > 0
    \/ calls[j].commit.failed > 0
    \/ calls[j].contributors.failed > 0

(* C23: in organization mode every enumerated repository is taken up exactly   *)
(* once, in turn, and ends either with one record or skipped, never both and   *)
(* never with two records; when the loop is over, the records and the skipped  *)
(* repositories add up to the enumerated ones; and every record holds only     *)
(* values of its own repository: its counts are those of its own contributor   *)
(* calls and its flag is the rule applied to its own fields.                   *)
C23_OncePerRepository ==
    mode = "org" =>
        /\ \A j \in 1..NumRepos :
             /\ calls[j].archived.n =
                  (IF j < i \/ (j = i /\ j <= allRepos /\ pc # "archived") THEN 1 ELSE 0)
             /\ j > i => calls[j] = NoCalls
             /\ Cardinality({k \in 1..Len(results) : results[k].name = j}) <= 1
             /\ (j < i /\ j <= allRepos) => (HasRecord(j) <=> ~OrgSkipped(j))
             /\ j >= i => ~HasRecord(j)
        /\ pc \in {"render", "done"} =>
             Len(results) + Cardinality({j \in 1..allRepos : OrgSkipped(j)}) = allRepos
        /\ pc = "archived" =>
             (r = NoRepo /\ contribs = 0 /\ active = 0 /\ inactive = 0)
        /\ \A rec \in Records :
             /\ rec.total = calls[rec.name].listed
             /\ rec.inactive = calls[rec.name].member.failed
             /\ rec.pct = (IF rec.total > 0 THEN <<rec.inactive, rec.total>> ELSE Zero)
             /\ rec = OrgFlag([rec EXCEPT !.flagged = FALSE], cfg)

C23_Witness ==
    /\ mode = "org"
    /\ pc = "done"
    /\ allRepos = 2
    /\ Len(results) = 2
    /\ results[1].flagged
    /\ results[1].total > 0
    /\ ~results[2].flagged
    /\ results[2].total = 0

(* C24: file mode never asks for the archive status of a repository, and every *)
(* record it produces has archived = false, so that its reports show every     *)
(* repository as not archived.                                                  *)
C24_FileModeNeverArchived ==
    mode = "file" =>
        /\ \A j \in 1..NumRepos : calls[j].archived.n = 0
        /\ \A rec \in Records : ~rec.archived
        /\ ~r.archived

C24_Witness ==
    /\ mode = "file"
    /\ pc = "done"
    /\ Len(results) = 2
    /\ \A rec \in Records : ~rec.archived /\ calls[rec.name].exists.n = 1

(* C25: when the request for a page fails, the first page or a later one, the  *)
(* enumerator returns the error and no name (those of the earlier pages are    *)
(* dropped), no repository is analysed and no record exists, and the run ends  *)
(* with exit code 1.                                                            *)
C25_ListingFailureDiscards ==
    /\ [](Len(pager.requests) > Len(pager.sizes)
            => /\ pager.phase = "failed"
               /\ pager.allRepos = <<>>
               /\ results = <<>>
               /\ NothingFetched
               /\ pc = "aborted" => (exitCode = 1 /\ cause = "list"))
    /\ [](pager.phase = "failed" => <>(pc = "aborted"))

C25_Witness ==
    /\ pager.phase = "failed"
    /\ pager.requests = <<1, 2>>
    /\ pager.sizes = <<PerPage>>
    /\ pager.allRepos = <<>>
    /\ pc = "aborted"
    /\ exitCode = 1

(* C26: GetContributorsStatus makes one membership check per login returned by *)
(* the contributor listing and none when the listing is empty, and counts each *)
(* login once, as active or as inactive: while it runs, active + inactive is   *)
(* the number of checks made; when it returns, and in the record made from it, *)
(* active + inactive is the number of logins listed.                            *)
C26_EveryContributorCountedOnce ==
    /\ \A j \in 1..NumRepos :
         /\ calls[j].member.n <= calls[j].listed
         /\ calls[j].listed = 0 => calls[j].member.n = 0
    /\ pc \in {"member", "classify"} =>
         /\ contribs = calls[i].listed
         /\ active + inactive = calls[i].member.n
         /\ inactive = calls[i].member.failed
    /\ pc = "classify" => active + inactive = calls[i].listed
    /\ \A rec \in Records :
         /\ rec.total = calls[rec.name].listed
         /\ calls[rec.name].member.n = calls[rec.name].listed

C26_Witness ==
    /\ pc = "done"
    /\ \E rec \in Records :
         /\ rec.total = MaxContrib
         /\ calls[rec.name].member.n = MaxContrib
    /\ \E rec \in Records :
         /\ rec.total = 0
         /\ calls[rec.name].contributors.n = 1
         /\ calls[rec.name].member.n = 0

(* The console branch of a renderer was taken: it alone prints the title first. *)
ConsoleRendered ==
    /\ Rendered
    /\ out.res.stdout # <<>>
    /\ out.res.stdout[1].kind = "title"

====
